---------------------------- MODULE Spec2Model ----------------------------
(***************************************************************************)
(* A model of the media acquisition bot (src/utils/downloader.py,          *)
(* src/app.py, src/utils/tiktok_downloader.py).                            *)
(*                                                                         *)
(* Python strings are sequences of one-character strings, so that regular  *)
(* expression searches, str.split, str.startswith and the UTF-8 length are *)
(* computed on the characters as the code computes them.  The single       *)
(* non-ASCII character of the model is written "U+00E9" (two bytes in      *)
(* UTF-8).  Python's None is the value None below.                         *)
(***************************************************************************)
EXTENDS Naturals, Integers, Sequences, FiniteSets, TLC

VARIABLES
    _url_cache,             \* downloader.py:18, key -> <<url, platform, timestamp>>
    now,                    \* the value time.time() returns
    YOUTUBE_PIPED_ENABLED,  \* downloader.py:47, read from the environment at import
    files,                  \* the files under data/media/<platform>/
    req,                    \* one record per in-flight handler invocation
    sent,                   \* what the chat has received
    probe,                  \* the input of the operation applied on its own
    last,                   \* the last operation applied on its own, and what it returned
    button,                 \* the "Convert to Audio" button of the last keyboard built
    hist                    \* history: when each key was last stored, when the last store ran

vars == <<_url_cache, now, YOUTUBE_PIPED_ENABLED, files, req, sent, probe, last, button, hist>>

None == <<"None">>

\* `not x` for x a str or None
Falsy(x) == x = None \/ x = <<>>

--------------------------------------------------------------------------
(* Strings *)

S_http           == <<"h","t","t","p",":","/","/">>
S_https          == <<"h","t","t","p","s",":","/","/">>
S_www            == <<"w","w","w",".">>
S_convert_audio  == <<"c","o","n","v","e","r","t","_","a","u","d","i","o">>
S_convert_cached ==
    <<"c","o","n","v","e","r","t","_","a","u","d","i","o","_","c","a","c","h","e","d","|">>
S_bar            == <<"|">>

P_facebook  == <<"f","a","c","e","b","o","o","k">>
P_instagram == <<"i","n","s","t","a","g","r","a","m">>
P_tiktok    == <<"t","i","k","t","o","k">>
P_douyin    == <<"d","o","u","y","i","n">>
P_youtube   == <<"y","o","u","t","u","b","e">>
P_twitter   == <<"t","w","i","t","t","e","r">>
P_reddit    == <<"r","e","d","d","i","t">>
P_pinterest == <<"p","i","n","t","e","r","e","s","t">>
P_qqmusic   == <<"q","q","m","u","s","i","c">>
P_unknown   == <<"u","n","k","n","o","w","n">>

D_facebook_com   == <<"f","a","c","e","b","o","o","k",".","c","o","m">>
D_fb_com         == <<"f","b",".","c","o","m">>
D_m_facebook_com == <<"m",".","f","a","c","e","b","o","o","k",".","c","o","m">>
D_instagram_com  == <<"i","n","s","t","a","g","r","a","m",".","c","o","m">>
D_instagr_am     == <<"i","n","s","t","a","g","r",".","a","m">>
D_tiktok_com     == <<"t","i","k","t","o","k",".","c","o","m">>
D_vm_tiktok_com  == <<"v","m",".","t","i","k","t","o","k",".","c","o","m">>
D_douyin_com     == <<"d","o","u","y","i","n",".","c","o","m">>
D_iesdouyin_com  == <<"i","e","s","d","o","u","y","i","n",".","c","o","m">>
D_youtube_com    == <<"y","o","u","t","u","b","e",".","c","o","m">>
D_youtu_be       == <<"y","o","u","t","u",".","b","e">>
D_m_youtube_com  == <<"m",".","y","o","u","t","u","b","e",".","c","o","m">>
D_twitter_com    == <<"t","w","i","t","t","e","r",".","c","o","m">>
D_x_com          == <<"x",".","c","o","m">>
D_t_co           == <<"t",".","c","o">>
D_reddit_com     == <<"r","e","d","d","i","t",".","c","o","m">>
D_redd_it        == <<"r","e","d","d",".","i","t">>
D_pinterest_com  == <<"p","i","n","t","e","r","e","s","t",".","c","o","m">>
D_pin_it         == <<"p","i","n",".","i","t">>
D_y_qq_com       == <<"y",".","q","q",".","c","o","m">>
D_i_y_qq_com     == <<"i",".","y",".","q","q",".","c","o","m">>

\* s[i .. i+Len(p)-1] = p
HasAt(s, i, p) ==
    /\ i + Len(p) - 1 <= Len(s)
    /\ \A j \in 1..Len(p) : s[i + j - 1] = p[j]

\* str.startswith
StartsWith(s, p) == HasAt(s, 1, p)

\* str.endswith
EndsWith(s, p) == Len(p) <= Len(s) /\ HasAt(s, Len(s) - Len(p) + 1, p)

\* the index of the first occurrence of the character c in s at or after i, 0 if none
RECURSIVE FindChar(_, _, _)
FindChar(s, c, i) ==
    IF i > Len(s) THEN 0
    ELSE IF s[i] = c THEN i
    ELSE FindChar(s, c, i + 1)

\* str.split(c, maxsplit) for a one-character separator c
RECURSIVE Split(_, _, _)
Split(s, c, maxsplit) ==
    LET i == FindChar(s, c, 1) IN
    IF maxsplit = 0 \/ i = 0 THEN <<s>>
    ELSE <<SubSeq(s, 1, i - 1)>> \o Split(SubSeq(s, i + 1, Len(s)), c, maxsplit - 1)

\* the number of bytes of one character in UTF-8
Utf8Bytes(c) == IF c = "U+00E9" THEN 2 ELSE 1

\* len(s.encode('utf-8'))
RECURSIVE Utf8Len(_)
Utf8Len(s) == IF s = <<>> THEN 0 ELSE Utf8Bytes(Head(s)) + Utf8Len(Tail(s))

UpperCase ==
    <<"A","B","C","D","E","F","G","H","I","J","K","L","M","N","O","P","Q","R","S","T",
      "U","V","W","X","Y","Z">>

LowerCase ==
    <<"a","b","c","d","e","f","g","h","i","j","k","l","m","n","o","p","q","r","s","t",
      "u","v","w","x","y","z">>

\* str.lower
lower(s) ==
    [i \in 1..Len(s) |->
        IF \E k \in 1..Len(UpperCase) : UpperCase[k] = s[i]
        THEN LowerCase[CHOOSE k \in 1..Len(UpperCase) : UpperCase[k] = s[i]]
        ELSE s[i]]

\* str.endswith(tuple of suffixes)
EndsWithAny(s, suffixes) == \E x \in suffixes : EndsWith(s, x)

--------------------------------------------------------------------------
(* Platform classification: downloader.py:34-59 *)

\* the dict in its insertion order; each pattern is
\*   (?:https?://)?(?:www\.)?(?:d1|d2|d3)
\* and is given here by its platform and its alternatives d1, d2, d3
PLATFORM_PATTERNS ==
    << <<P_facebook,  {D_facebook_com, D_fb_com, D_m_facebook_com}>>,
       <<P_instagram, {D_instagram_com, D_instagr_am}>>,
       <<P_tiktok,    {D_tiktok_com, D_vm_tiktok_com}>>,
       <<P_douyin,    {D_douyin_com, D_iesdouyin_com}>>,
       <<P_youtube,   {D_youtube_com, D_youtu_be, D_m_youtube_com}>>,
       <<P_twitter,   {D_twitter_com, D_x_com, D_t_co}>>,
       <<P_reddit,    {D_reddit_com, D_redd_it}>>,
       <<P_pinterest, {D_pinterest_com, D_pin_it}>>,
       <<P_qqmusic,   {D_y_qq_com, D_i_y_qq_com}>> >>

\* the pattern matches at position i of url: both prefixes are optional
PatternMatchesAt(domains, url, i) ==
    \E scheme \in {<<>>, S_http, S_https}, www \in {<<>>, S_www}, d \in domains :
        HasAt(url, i, scheme \o www \o d)

\* re.search(pattern, url) is not None: the pattern is not anchored
re_search(domains, url) ==
    \E i \in 1..Len(url) : PatternMatchesAt(domains, url, i)

RECURSIVE detect_from(_, _)
detect_from(k, url) ==
    IF k > Len(PLATFORM_PATTERNS) THEN P_unknown
    ELSE IF re_search(PLATFORM_PATTERNS[k][2], url) THEN PLATFORM_PATTERNS[k][1]
    ELSE detect_from(k + 1, url)

detect_platform(url) == detect_from(1, url)


--------------------------------------------------------------------------
(* The URLs of the model, with the action payload each gives and the first *)
(* eight hexadecimal digits of md5("<platform>|<url>").                    *)

\* https://youtu.be/dQw4w9WgXcQ
\*   payload for youtube: 50 characters, 50 bytes; md5 prefix 63ddc4ff
URL_YT_SHORT ==
    <<"h","t","t","p","s",":","/","/","y","o","u","t","u",".","b","e","/","d","Q","w","4","w","9","W","g","X","c","Q">>
\* https://www.youtube.com/watch?v=dQw4w9WgXc
\*   payload for youtube: 64 characters, 64 bytes; md5 prefix 9bc22cee
URL_YT_EDGE ==
    <<"h","t","t","p","s",":","/","/","w","w","w",".","y","o","u","t","u","b","e",".","c","o","m","/","w","a","t","c","h","?","v","=","d","Q","w","4","w","9","W","g","X","c">>
\* https://www.youtube.com/watch?v=dQw4w9WadHY
\*   payload for youtube: 65 characters, 65 bytes; md5 prefix fc9d4c16
URL_YT_LONG_A ==
    <<"h","t","t","p","s",":","/","/","w","w","w",".","y","o","u","t","u","b","e",".","c","o","m","/","w","a","t","c","h","?","v","=","d","Q","w","4","w","9","W","a","d","H","Y">>
\* https://www.youtube.com/watch?v=dQw4w9Wae10
\*   payload for youtube: 65 characters, 65 bytes; md5 prefix fc9d4c16 (the
\*   same as URL_YT_LONG_A: the two digests agree on their first 32 bits)
URL_YT_LONG_B ==
    <<"h","t","t","p","s",":","/","/","w","w","w",".","y","o","u","t","u","b","e",".","c","o","m","/","w","a","t","c","h","?","v","=","d","Q","w","4","w","9","W","a","e","1","0">>
\* https://fb.com/caf<U+00E9>/videos/12345678901234
\*   payload for facebook: 64 characters, 65 bytes; md5 prefix 407a7839
URL_FB_ACCENT ==
    <<"h","t","t","p","s",":","/","/","f","b",".","c","o","m","/","c","a","f","U+00E9","/","v","i","d","e","o","s","/","1","2","3","4","5","6","7","8","9","0","1","2","3","4">>
\* https://fb.com/watch?v=123456789012345678901
\*   payload for facebook: 67 characters, 67 bytes; md5 prefix 0478bbc4
URL_FB_LONG ==
    <<"h","t","t","p","s",":","/","/","f","b",".","c","o","m","/","w","a","t","c","h","?","v","=","1","2","3","4","5","6","7","8","9","0","1","2","3","4","5","6","7","8","9","0","1">>
\* https://vm.tiktok.com/ZMabc/
\*   payload for tiktok: 49 characters, 49 bytes; md5 prefix e3b4fc22
URL_TT ==
    <<"h","t","t","p","s",":","/","/","v","m",".","t","i","k","t","o","k",".","c","o","m","/","Z","M","a","b","c","/">>
\* https://example.org/v
URL_OTHER ==
    <<"h","t","t","p","s",":","/","/","e","x","a","m","p","l","e",".","o","r","g","/","v">>
\* https://x.com/a|b
\*   payload for twitter: 39 characters, 39 bytes; md5 prefix a5c38b1b
URL_X_PIPE ==
    <<"h","t","t","p","s",":","/","/","x",".","c","o","m","/","a","|","b">>

\* hashlib.md5(f"{platform}|{url}".encode()).hexdigest()[:8], tabulated for
\* the (platform, url) pairs of the model
Md5Table ==
    { <<P_youtube, URL_YT_SHORT, <<"6","3","d","d","c","4","f","f">>>>,
      <<P_youtube, URL_YT_EDGE, <<"9","b","c","2","2","c","e","e">>>>,
      <<P_youtube, URL_YT_LONG_A, <<"f","c","9","d","4","c","1","6">>>>,
      <<P_youtube, URL_YT_LONG_B, <<"f","c","9","d","4","c","1","6">>>>,
      <<P_facebook, URL_FB_ACCENT, <<"4","0","7","a","7","8","3","9">>>>,
      <<P_facebook, URL_FB_LONG, <<"0","4","7","8","b","b","c","4">>>>,
      <<P_tiktok, URL_TT, <<"e","3","b","4","f","c","2","2">>>>,
      <<P_twitter, URL_X_PIPE, <<"a","5","c","3","8","b","1","b">>>> }

Md5Hex8(platform, url) ==
    (CHOOSE row \in Md5Table : row[1] = platform /\ row[2] = url)[3]

--------------------------------------------------------------------------
(* The correlation cache: downloader.py:17-19, 230-254 *)

_cache_cleanup_time == 3600

\* a sweep with the operands of the subtraction exchanged: nothing expires
_cleanup_url_cache_swapped(cache, t) ==
    LET expired_keys == {key \in DOMAIN cache : cache[key][3] - t > _cache_cleanup_time}
    IN  [key \in DOMAIN cache \ expired_keys |-> cache[key]]

\* _cleanup_url_cache at time.time() = t: the cache without its expired keys
_cleanup_url_cache(cache, t) ==
    LET expired_keys == {key \in DOMAIN cache : t - cache[key][3] > _cache_cleanup_time}
    IN  [key \in DOMAIN cache \ expired_keys |-> cache[key]]

\* a store that keeps the entry a key already holds (dict.setdefault)
_store_url_in_cache_setdefault(cache, t, url, platform) ==
    LET swept    == _cleanup_url_cache(cache, t)
        url_hash == Md5Hex8(platform, url)
    IN  [key   |-> url_hash,
         cache |-> [k \in DOMAIN swept \cup {url_hash} |->
                        IF k \in DOMAIN swept THEN swept[k] ELSE <<url, platform, t>>]]

\* _store_url_in_cache at time.time() = t: the key returned and the cache left
_store_url_in_cache(cache, t, url, platform) ==
    LET swept    == _cleanup_url_cache(cache, t)
        url_hash == Md5Hex8(platform, url)
    IN  [key   |-> url_hash,
         cache |-> [k \in DOMAIN swept \cup {url_hash} |->
                        IF k = url_hash THEN <<url, platform, t>> ELSE swept[k]]]

\* a lookup that takes the entry out of the cache (dict.pop)
_get_url_from_cache_pop(cache, url_hash) ==
    IF url_hash \in DOMAIN cache
    THEN [result |-> <<cache[url_hash][1], cache[url_hash][2]>>,
          cache  |-> [k \in DOMAIN cache \ {url_hash} |-> cache[k]]]
    ELSE [result |-> <<None, None>>, cache |-> cache]

\* _get_url_from_cache: the pair returned and the cache left
_get_url_from_cache(cache, url_hash) ==
    IF url_hash \in DOMAIN cache
    THEN LET cached_data == cache[url_hash]
         IN  [result |-> <<cached_data[1], cached_data[2]>>, cache |-> cache]
    ELSE [result |-> <<None, None>>, cache |-> cache]

--------------------------------------------------------------------------
(* The action keyboard and the callback that answers it:                   *)
(* downloader.py:256-273, 458-479; app.py:60                               *)

CALLBACK_DATA_MAX == 64

\* a keyboard that measures the payload in characters, not in bytes
build_action_keyboard_chars(cache, t, original_url, platform) ==
    LET callback_data == S_convert_audio \o S_bar \o platform \o S_bar \o original_url
    IN  IF Len(callback_data) <= CALLBACK_DATA_MAX
        THEN [callback_data |-> callback_data, cache |-> cache, stored |-> FALSE]
        ELSE LET r == _store_url_in_cache(cache, t, original_url, platform)
             IN  [callback_data |-> S_convert_cached \o r.key, cache |-> r.cache,
                  stored |-> TRUE]

\* build_action_keyboard at time.time() = t: the callback_data of the
\* "Convert to Audio" button, the cache left, and whether
\* _store_url_in_cache was called
build_action_keyboard(cache, t, original_url, platform) ==
    LET callback_data == S_convert_audio \o S_bar \o platform \o S_bar \o original_url
    IN  IF Utf8Len(callback_data) <= CALLBACK_DATA_MAX
        THEN [callback_data |-> callback_data, cache |-> cache, stored |-> FALSE]
        ELSE LET r == _store_url_in_cache(cache, t, original_url, platform)
             IN  [callback_data |-> S_convert_cached \o r.key, cache |-> r.cache,
                  stored |-> TRUE]

\* CallbackQueryHandler(handle_convert_to_audio, pattern=r"^convert_audio\|"):
\* the handler runs for a callback query whose data the pattern matches at
\* its start
CallbackPatternMatches(data) == StartsWith(data, S_convert_audio \o S_bar)

\* handle_convert_to_audio, lines 461-479: the (url, platform) the handler
\* goes on with, or cleared when it removes the keyboard and returns
parse_callback_data(cache, data) ==
    IF StartsWith(data, S_convert_cached)
    THEN LET parts == Split(data, "|", 1) IN
         IF Len(parts) # 2 THEN [cleared |-> TRUE]
         ELSE LET got == _get_url_from_cache(cache, parts[2]).result IN
              IF Falsy(got[1]) THEN [cleared |-> TRUE]
              ELSE [cleared |-> FALSE, original_url |-> got[1], platform |-> got[2]]
    ELSE LET parts == Split(data, "|", 2) IN
         IF Len(parts) # 3 THEN [cleared |-> TRUE]
         ELSE [cleared |-> FALSE, original_url |-> parts[3], platform |-> parts[2]]

--------------------------------------------------------------------------
(* The clock.  time.time() moves in steps of half the cache's time to live *)
(* or one second more, so that an entry's age can be below it, exactly it  *)
(* and above it.                                                           *)

MaxClock == 3601

\* the same for the handlers, where only the order of the creation times
\* matters
MaxUptime == 1800

TickSteps == {_cache_cleanup_time \div 2, _cache_cleanup_time \div 2 + 1}

--------------------------------------------------------------------------
(* The state the program starts in, and the variables each specification   *)
(* leaves alone.                                                           *)

EmptyCache == [key \in {} |-> <<>>]

NoButton == [url |-> None, platform |-> None, callback_data |-> None]

NoHist == [storedAt |-> [key \in {} |-> 0], sweptAt |-> -1]

ProgramIdle ==
    /\ _url_cache = EmptyCache
    /\ now = 0
    /\ files = {}
    /\ sent = {}

AloneIdle ==
    /\ probe = None
    /\ last = [op |-> "none"]
    /\ button = NoButton
    /\ hist = NoHist

--------------------------------------------------------------------------
(* detect_platform applied on its own to URLs put together from a scheme,  *)
(* an optional www., a host and the rest of the URL.                       *)

ProbeSchemes == {S_http, S_https}

ProbeWww == {<<>>, S_www}

H_example_org == <<"e","x","a","m","p","l","e",".","o","r","g">>
H_netflix_com == <<"n","e","t","f","l","i","x",".","c","o","m">>
H_vimeo_com   == <<"v","i","m","e","o",".","c","o","m">>

\* every host the patterns name, and three they do not
ProbeHosts ==
    UNION {PLATFORM_PATTERNS[k][2] : k \in 1..Len(PLATFORM_PATTERNS)}
        \cup {H_example_org, H_netflix_com, H_vimeo_com}

\* "", "/v/1" and "/?u=youtu.be"
ProbeRests ==
    { <<>>, <<"/","v","/","1">>, <<"/","?","u","=">> \o D_youtu_be }

ProbeUrl(p) == p.scheme \o p.www \o p.host \o p.rest

ClassifyInit ==
    /\ ProgramIdle
    /\ YOUTUBE_PIPED_ENABLED = TRUE
    /\ req = <<>>
    /\ probe \in [scheme : ProbeSchemes, www : ProbeWww, host : ProbeHosts, rest : ProbeRests]
    /\ last = [op |-> "none"]
    /\ button = NoButton
    /\ hist = NoHist

Classify ==
    /\ last.op = "none"
    /\ last' = [op |-> "detect", platform |-> detect_platform(ProbeUrl(probe))]
    /\ UNCHANGED <<_url_cache, now, YOUTUBE_PIPED_ENABLED, files, req, sent, probe, button, hist>>

ClassifyNext == Classify

SpecClassify == ClassifyInit /\ [][ClassifyNext]_vars

\* the platforms whose pattern names the host h
HostPlatforms(h) ==
    {PLATFORM_PATTERNS[k][1] : k \in {j \in 1..Len(PLATFORM_PATTERNS) : h \in PLATFORM_PATTERNS[j][2]}}

\* C10: a URL whose host is named by exactly one platform's pattern is
\* classified as that platform, a URL whose host no pattern names is
\* classified as unknown, whatever else the URL holds.
C10_HostDecidesPlatform ==
    last.op = "detect" =>
        /\ \A pf \in HostPlatforms(probe.host) :
               HostPlatforms(probe.host) = {pf} => last.platform = pf
        /\ HostPlatforms(probe.host) = {} => last.platform = P_unknown

\* str.upper
upper(s) ==
    [i \in 1..Len(s) |->
        IF \E k \in 1..Len(LowerCase) : LowerCase[k] = s[i]
        THEN UpperCase[CHOOSE k \in 1..Len(LowerCase) : LowerCase[k] = s[i]]
        ELSE s[i]]

\* the host h with its first letter in upper case
Capitalized(h) == upper(SubSeq(h, 1, 1)) \o SubSeq(h, 2, Len(h))

\* the probe's URL with its host, and nothing else, in another letter case
HostCaseVariants(p) ==
    {p.scheme \o p.www \o h \o p.rest : h \in {upper(p.host), Capitalized(p.host)}}

\* C11: a URL that differs from the one classified only in the letter case
\* of its host is classified as the same platform.
C11_HostCaseInsensitive ==
    last.op = "detect" =>
        \A url \in HostCaseVariants(probe) : detect_platform(url) = last.platform

--------------------------------------------------------------------------
(* The cache, the keyboard and the callback applied on their own, in any   *)
(* order and at any time: store, resolve, build a keyboard, press the      *)
(* button of the last keyboard built.                                      *)

\* the (platform, url) pairs stored directly
StorePairs ==
    { <<P_youtube, URL_YT_LONG_A>>, <<P_youtube, URL_YT_LONG_B>>, <<P_facebook, URL_FB_ACCENT>> }

\* the (platform, url) pairs keyboards are built for: two more, whose
\* payload fits (one of 64 bytes exactly, one with a | in its URL)
KeyboardPairs ==
    StorePairs \cup { <<P_youtube, URL_YT_EDGE>>, <<P_twitter, URL_X_PIPE>> }

\* the keys looked up: those of StorePairs, and one that is never stored
ResolveKeys ==
    {Md5Hex8(pu[1], pu[2]) : pu \in StorePairs} \cup {Md5Hex8(P_youtube, URL_YT_SHORT)}

CacheInit ==
    /\ ProgramIdle
    /\ YOUTUBE_PIPED_ENABLED = TRUE
    /\ req = <<>>
    /\ AloneIdle

\* hist after a store of key at time t
Stored(key, t) ==
    [storedAt |-> [k \in DOMAIN hist.storedAt \cup {key} |->
                       IF k = key THEN t ELSE hist.storedAt[k]],
     sweptAt  |-> t]

Store(platform, url) ==
    LET r == _store_url_in_cache(_url_cache, now, url, platform) IN
    /\ _url_cache' = r.cache
    /\ last' = [op |-> "store", url |-> url, platform |-> platform, key |-> r.key,
                held |-> IF r.key \in DOMAIN _url_cache THEN _url_cache[r.key][1] ELSE None,
                removed |-> DOMAIN _url_cache \ DOMAIN r.cache]
    /\ hist' = Stored(r.key, now)
    /\ UNCHANGED <<now, YOUTUBE_PIPED_ENABLED, files, req, sent, probe, button>>

Resolve(key) ==
    LET r == _get_url_from_cache(_url_cache, key) IN
    /\ _url_cache' = r.cache
    /\ last' = [op |-> "resolve", key |-> key, result |-> r.result,
                found |-> key \in DOMAIN _url_cache,
                entry |-> IF key \in DOMAIN _url_cache THEN _url_cache[key] ELSE <<None, None, 0>>,
                at |-> now,
                changed |-> r.cache # _url_cache,
                removed |-> DOMAIN _url_cache \ DOMAIN r.cache]
    /\ UNCHANGED <<now, YOUTUBE_PIPED_ENABLED, files, req, sent, probe, button, hist>>

BuildKeyboard(platform, url) ==
    LET r == build_action_keyboard(_url_cache, now, url, platform) IN
    /\ _url_cache' = r.cache
    /\ button' = [url |-> url, platform |-> platform, callback_data |-> r.callback_data]
    /\ last' = [op |-> "build", url |-> url, platform |-> platform,
                callback_data |-> r.callback_data, stored |-> r.stored,
                changed |-> r.cache # _url_cache,
                removed |-> DOMAIN _url_cache \ DOMAIN r.cache]
    /\ hist' = IF r.stored THEN Stored(Md5Hex8(platform, url), now) ELSE hist
    /\ UNCHANGED <<now, YOUTUBE_PIPED_ENABLED, files, req, sent, probe>>

\* the user presses the button: the application hands the callback query
\* to handle_convert_to_audio if its pattern matches, and to no handler
\* otherwise
PressButton ==
    /\ button # NoButton
    /\ LET routed == CallbackPatternMatches(button.callback_data) IN
       last' = [op |-> "press", button |-> button, routed |-> routed,
                parsed |-> IF routed THEN parse_callback_data(_url_cache, button.callback_data)
                           ELSE None,
                removed |-> {}]
    /\ UNCHANGED <<_url_cache, now, YOUTUBE_PIPED_ENABLED, files, req, sent, probe, button, hist>>

Tick(limit) ==
    \E d \in TickSteps :
        /\ now + d <= limit
        /\ now' = now + d
        /\ UNCHANGED <<_url_cache, YOUTUBE_PIPED_ENABLED, files, req, sent, probe, last, button, hist>>

CacheNext ==
    \/ \E pu \in StorePairs : Store(pu[1], pu[2])
    \/ \E key \in ResolveKeys : Resolve(key)
    \/ \E pu \in KeyboardPairs : BuildKeyboard(pu[1], pu[2])
    \/ PressButton
    \/ Tick(MaxClock)

SpecCache == CacheInit /\ [][CacheNext]_vars

\* the inline payload of a (platform, url) pair
InlinePayload(platform, url) == S_convert_audio \o S_bar \o platform \o S_bar \o url

\* the entry the cache holds for the button b is the one b's keyboard stored
EntryPresent(b) ==
    LET key == Md5Hex8(b.platform, b.url) IN
    /\ key \in DOMAIN _url_cache
    /\ _url_cache[key][1] = b.url
    /\ _url_cache[key][2] = b.platform

\* C5: every payload a keyboard carries, in either form, is handed to the
\* convert-to-audio handler when the button is pressed, and is resolved
\* there to the (url, platform) the keyboard was built from; a payload in
\* the cached-key form is, while its cache entry is present.
C5_PayloadRoutedAndResolved ==
    last.op = "press" =>
        /\ last.routed
        /\ (last.button.callback_data = InlinePayload(last.button.platform, last.button.url)
                \/ EntryPresent(last.button))
            => /\ ~last.parsed.cleared
               /\ last.parsed.original_url = last.button.url
               /\ last.parsed.platform = last.button.platform

\* C6: a keyboard carries the inline payload exactly when that payload is
\* at most 64 bytes in UTF-8, and then nothing is stored and the cache is
\* as it was; otherwise it carries convert_audio_cached|<key>, the key being
\* the one store returned, under which the cache now holds (url, platform).
C6_OnePayloadForm ==
    last.op = "build" =>
        LET inline == InlinePayload(last.platform, last.url)
            key    == Md5Hex8(last.platform, last.url)
        IN  /\ (last.callback_data = inline) <=> (Utf8Len(inline) <= 64)
            /\ last.callback_data = inline => ~last.stored /\ ~last.changed
            /\ last.callback_data # inline =>
                   /\ last.callback_data = S_convert_cached \o key
                   /\ last.stored
                   /\ _get_url_from_cache(_url_cache, key).result = <<last.url, last.platform>>

\* a keyboard was built for a URL whose payload is 64 characters and 65 bytes
C6_Witness ==
    /\ last.op = "build"
    /\ Len(InlinePayload(last.platform, last.url)) = 64
    /\ Utf8Len(InlinePayload(last.platform, last.url)) = 65
    /\ last.stored

\* C7: after store(url, platform), resolve of the key it returned yields
\* (url, platform), whatever the cache held before.
C7_StoreThenResolve ==
    last.op = "store" =>
        _get_url_from_cache(_url_cache, last.key).result = <<last.url, last.platform>>

\* a store whose key already held the entry of another URL
C7_Witness ==
    /\ last.op = "store"
    /\ last.held # None
    /\ last.held # last.url

\* resolve of key finds nothing
NotFound(key) == _get_url_from_cache(_url_cache, key).result = <<None, None>>

\* C8 as stated: resolve finds nothing for a key never stored, nor for a key
\* last stored at t once a store ran at t' with t' - t >= 3600.
C8_EvictedAtTTL ==
    \A key \in ResolveKeys :
        /\ key \notin DOMAIN hist.storedAt => NotFound(key)
        /\ (key \in DOMAIN hist.storedAt /\ hist.sweptAt - hist.storedAt[key] >= 3600)
               => NotFound(key)

\* C8 as amended: resolve finds nothing for a key never stored, nor for a
\* key last stored at t once a store ran at t' with t' - t > 3600.
C8_EvictedAfterTTL ==
    \A key \in ResolveKeys :
        /\ key \notin DOMAIN hist.storedAt => NotFound(key)
        /\ (key \in DOMAIN hist.storedAt /\ hist.sweptAt - hist.storedAt[key] > 3600)
               => NotFound(key)

\* resolve of a key stored more than 3600 s before the last store
C8_Witness ==
    /\ last.op = "resolve"
    /\ last.key \in DOMAIN hist.storedAt
    /\ hist.sweptAt - hist.storedAt[last.key] > 3600
    /\ last.result = <<None, None>>

\* C9: resolve leaves the cache as it was and returns the entry it finds,
\* however old; an operation that removed an entry was a store (on its own
\* or inside build_action_keyboard).
C9_ResolveIsReadOnly ==
    /\ last.op = "resolve" =>
           /\ ~last.changed
           /\ last.found => last.result = <<last.entry[1], last.entry[2]>>
           /\ last.found => last.key \in DOMAIN _url_cache
    /\ (last.op # "none" /\ last.removed # {}) => last.op \in {"store", "build"}

\* resolve returned an entry older than the time to live
C9_Witness ==
    /\ last.op = "resolve"
    /\ last.found
    /\ last.at - last.entry[3] > 3600
    /\ last.result[1] # None

--------------------------------------------------------------------------
(* The file system under data/media: a file is its directory (the          *)
(* platform), its name, its creation time and, as history, the request     *)
(* that wrote it.                                                          *)

FileAt(fs, dir, name) == {f \in fs : f.dir = dir /\ f.name = name}

\* os.path.exists
exists(fs, dir, name) == FileAt(fs, dir, name) # {}

\* open(path, 'wb') and the writes that follow, at time t, by request r
WriteFile(fs, dir, name, t, r) ==
    (fs \ FileAt(fs, dir, name)) \cup {[dir |-> dir, name |-> name, ctime |-> t, by |-> r]}

\* os.remove inside try / except Exception: pass
RemoveFile(fs, dir, name) == fs \ FileAt(fs, dir, name)

\* os.listdir(dir), the regular files
listdir(fs, dir) == {f \in fs : f.dir = dir}

\* the files max(..., key=os.path.getctime) may return: listdir's order
\* decides among files of equal creation time
Newest(fs) == {f \in fs : \A g \in fs : g.ctime <= f.ctime}

S_dot_mp4 == <<".","m","p","4">>
S_dot_jpg == <<".","j","p","g">>

\* the title the remote site gives the content of a URL
TitleOf(url) ==
    IF url = URL_YT_SHORT THEN <<"a">>
    ELSE IF url = URL_TT THEN <<"b">>
    ELSE <<"c">>

--------------------------------------------------------------------------
(* The protocol-API extractor: downloader.py:112-228.  What each endpoint  *)
(* answers is the environment's choice:                                    *)
(*   non200        the status code is not 200                              *)
(*   raises        the request or the JSON decoding raises                 *)
(*   no_streams    200, no muxed stream, no video-only + audio pair        *)
(*   muxed_ok      a muxed stream, downloaded                              *)
(*   muxed_fail    a muxed stream only; its download fails before the      *)
(*                 destination is opened                                   *)
(*   muxed_partial a muxed stream only; its download fails after the       *)
(*                 destination was opened                                  *)
(*   split_ok      a video-only + audio pair, downloaded and remuxed       *)
(*   split_v_fail  the video-only download fails before its file is opened *)
(*   split_v_partial  the video-only download fails after its file was     *)
(*                 opened                                                  *)
(*   split_a_fail  the audio download fails before its file is opened      *)
(*   split_a_partial  the audio download fails after its file was opened   *)
(*   remux_fail    ffmpeg returns non-zero and writes nothing              *)

EndpointAnswers ==
    {"non200", "raises", "no_streams", "muxed_ok", "muxed_fail", "muxed_partial",
     "split_ok", "split_v_fail", "split_v_partial", "split_a_fail", "split_a_partial",
     "remux_fail"}

PIPED_INSTANCES == <<"https://piped.video", "https://piped.mha.fi", "https://piped.projectsegfau.lt">>

IdChars ==
    {"a","b","c","d","e","f","g","h","i","j","k","l","m","n","o","p","q","r","s","t",
     "u","v","w","x","y","z","A","B","C","D","E","F","G","H","I","J","K","L","M","N",
     "O","P","Q","R","S","T","U","V","W","X","Y","Z","0","1","2","3","4","5","6","7",
     "8","9","_","-"}

\* the length of the longest run of identifier characters of url from i
RECURSIVE IdRun(_, _)
IdRun(url, i) ==
    IF i > Len(url) \/ url[i] \notin IdChars THEN 0 ELSE 1 + IdRun(url, i + 1)

\* _extract_youtube_id: the group of the leftmost match of
\*   (?:v=|/shorts/|/live/|youtu\.be/)([A-Za-z0-9_-]{6,})
RECURSIVE extract_id_from(_, _)
extract_id_from(url, i) ==
    LET heads == { <<"v","=">>, <<"/","s","h","o","r","t","s","/">>,
                   <<"/","l","i","v","e","/">>, D_youtu_be \o <<"/">> }
        hit   == {h \in heads : HasAt(url, i, h) /\ IdRun(url, i + Len(h)) >= 6}
    IN  IF i > Len(url) THEN None
        ELSE IF hit # {}
             THEN LET h == CHOOSE x \in hit : TRUE
                  IN  SubSeq(url, i + Len(h), i + Len(h) + IdRun(url, i + Len(h)) - 1)
        ELSE extract_id_from(url, i + 1)

_extract_youtube_id(url) == extract_id_from(url, 1)

S_dot_video_mp4 == <<".","v","i","d","e","o">> \o S_dot_mp4
S_dot_m4a == <<".","m","4","a">>

\* the loop over PIPED_INSTANCES from the k-th on: the path returned (a
\* file name in the platform's directory, or None), the files left and,
\* as history, the endpoints requests.get was called on (queried).
\* dest is <safe_title>.mp4 (lines 174, 196), vp the video-only file
\* (193), ap the audio file (195)
RECURSIVE piped_from(_, _, _, _, _, _, _)
piped_from(k, answers, fs, t, dir, title, r) ==
    LET dest    == title \o S_dot_mp4
        vp      == title \o S_dot_video_mp4
        ap      == title \o S_dot_m4a
        next(g) == [piped_from(k + 1, answers, g, t, dir, title, r)
                        EXCEPT !.queried = <<k>> \o @]
        \* both streams downloaded: lines 197-199 passed
        both    == WriteFile(WriteFile(fs, dir, vp, t, r), dir, ap, t, r)
    IN  IF k > Len(PIPED_INSTANCES) THEN [path |-> None, files |-> fs, queried |-> <<>>]
        ELSE CASE answers[k] \in {"non200", "raises", "no_streams", "muxed_fail",
                                  "split_v_fail"} -> next(fs)
               [] answers[k] = "muxed_partial" -> next(WriteFile(fs, dir, dest, t, r))
               [] answers[k] = "muxed_ok" ->
                      [path |-> dest, files |-> WriteFile(fs, dir, dest, t, r),
                       queried |-> <<k>>]
               \* line 198: continue
               [] answers[k] = "split_v_partial" -> next(WriteFile(fs, dir, vp, t, r))
               \* lines 199-204: v_path is removed
               [] answers[k] = "split_a_fail" ->
                      next(RemoveFile(WriteFile(fs, dir, vp, t, r), dir, vp))
               [] answers[k] = "split_a_partial" ->
                      next(RemoveFile(both, dir, vp))
               \* lines 217-224
               [] answers[k] = "remux_fail" ->
                      next(RemoveFile(RemoveFile(both, dir, vp), dir, ap))
               \* lines 208-214
               [] answers[k] = "split_ok" ->
                      [path |-> dest,
                       files |-> RemoveFile(RemoveFile(WriteFile(both, dir, dest, t, r),
                                                       dir, vp), dir, ap),
                       queried |-> <<k>>]

_download_youtube_via_piped(answers, fs, t, url, platform, r) ==
    LET video_id == _extract_youtube_id(url) IN
    IF Falsy(video_id) THEN [path |-> None, files |-> fs, queried |-> <<>>]
    ELSE piped_from(1, answers, fs, t, platform, TitleOf(url), r)

--------------------------------------------------------------------------
(* The handlers.  The application runs each handler as a coroutine on one  *)
(* event loop: a step of a request runs from one await to the next, and    *)
(* the extraction engine runs on an executor thread in between.            *)

NumReq == 2

Req == 1..NumReq

\* the URLs the users send
MainUrls == {URL_YT_SHORT, URL_TT, URL_FB_LONG, URL_OTHER}

\* what the three endpoints answer to one call of the protocol-API extractor
PipedAnswers ==
    { <<"non200", "non200", "non200">>,
      <<"raises", "no_streams", "split_v_fail">>,
      <<"non200", "muxed_ok", "non200">>,
      <<"muxed_partial", "split_a_fail", "remux_fail">>,
      <<"muxed_fail", "non200", "split_ok">> }

\* what one run of yt_dlp.YoutubeDL(opts).download([url]) does: it raises,
\* or returns a code having written the files of these extensions
EngineRuns ==
    { [raises |-> TRUE,  result |-> 1, exts |-> {}],
      [raises |-> FALSE, result |-> 1, exts |-> {}],
      [raises |-> FALSE, result |-> 0, exts |-> {}],
      [raises |-> FALSE, result |-> 0, exts |-> {S_dot_mp4}],
      [raises |-> FALSE, result |-> 0, exts |-> {S_dot_mp4, S_dot_jpg}] }

\* a request: the handler called (entry), the URLs re.findall gave (urls),
\* the index of the one being processed (i) and the locals of the call of
\* download_direct or download_tiktok_special in progress; as history, the
\* URLs handed to these two so far (processed), what the two returned
\* (outcomes), the strategies attempted
\* for the current one (attempts), and the request that wrote the file
\* handed to delivery (file_by); for a callback query, its data, whether
\* the application handed it to the handler (routed), whether the cache
\* lacked its key when it arrived (miss) and whether the handler removed
\* the message's keyboard (cleared)
IdleReq ==
    [pc |-> "idle", entry |-> "none", urls |-> <<>>, i |-> 0, processed |-> <<>>,
     outcomes |-> <<>>, url |-> None, platform |-> None, attempts |-> <<>>,
     raised |-> FALSE, result |-> 1, file_path |-> None, file_by |-> 0,
     callback_data |-> None, ret |-> "none", exited |-> FALSE, left |-> FALSE,
     data |-> None, routed |-> FALSE, miss |-> FALSE, cleared |-> FALSE]

\* a store that gives the loop away between its steps
OnLoop_store_yields == {"piped", "next"}

\* the event loop runs one coroutine at a time, from one await to the next:
\* a request at one of these positions is running on the loop
\* ("sweep": inside _store_url_in_cache, a plain function with no await)
OnLoop == {"piped", "next", "sweep"}

\* no coroutine is running: the loop can resume or start one
LoopIdle == \A q \in DOMAIN req : req[q].pc \notin OnLoop

\* a download_list that stops at its first URL
AfterUrl_first_only(rec) == "done"

\* where a request goes when download_direct or download_tiktok_special has
\* returned: download_list:446 takes the next URL, the others return
AfterUrl(rec) ==
    IF rec.entry = "download_list" /\ rec.i < Len(rec.urls) THEN "next" ELSE "done"

\* download_tiktok_with_fallbacks, tiktok_downloader.py:5-11
download_tiktok_with_fallbacks(url, output_dir) == <<FALSE, "placeholder", "Not implemented">>

TIKTOK_DOWNLOADER_AVAILABLE == TRUE

\* download_media:383, download_list:449: the branch to download_tiktok_special
is_tiktok(platform) == platform \in {P_tiktok, P_douyin}

\* a download_direct that takes the protocol-API path whatever the switch says
use_piped_always(platform, enabled) == platform = P_youtube

\* download_direct:393
use_piped(platform, enabled) == platform = P_youtube /\ enabled

\* a cleanup that runs only after a send that succeeded
send_cleanup_on_success(fs, dir, name, outcome) ==
    IF outcome = "ok" THEN RemoveFile(fs, dir, name) ELSE fs

\* send_file_with_buttons:288-292, the finally block: the files left when
\* the function is left with this outcome ("ok", "send_raises", "keyboard_raises")
send_cleanup(fs, dir, name, outcome) == RemoveFile(fs, dir, name)

\* send_file_with_buttons:276-279, up to the await: the keyboard is built
\* (which may raise) and the file is opened; rec is the request so far, fs
\* the files so far, ok_ret what the caller returns after the send
EnterSend(r, rec, fs, name) ==
    \E keyboard \in {"ok", "raises"} :
        IF keyboard = "raises"
        THEN /\ files' = send_cleanup(fs, rec.platform, name, "keyboard_raises")
             /\ req' = [req EXCEPT ![r] = [rec EXCEPT !.pc = AfterUrl(rec), !.ret = "False",
                            !.outcomes = @ \o <<"False">>,
                            !.file_path = name, !.exited = TRUE,
                            !.left = exists(files', rec.platform, name)]]
             /\ UNCHANGED _url_cache
        ELSE LET k == build_action_keyboard(_url_cache, now, rec.url, rec.platform) IN
             /\ _url_cache' = k.cache
             /\ files' = fs
             /\ req' = [req EXCEPT ![r] = [rec EXCEPT !.pc = "sending", !.file_path = name,
                            !.callback_data = k.callback_data]]

\* the generic extractor is handed to the executor
SubmitEngine(r, rec, fs) ==
    /\ files' = fs
    /\ req' = [req EXCEPT ![r] = [rec EXCEPT !.pc = "engine"]]
    /\ UNCHANGED _url_cache

\* download_direct:390-401 or download_tiktok_special:317-351 called with
\* the i-th URL of the request, up to the first point where the coroutine
\* stops: the blocking call of the protocol-API extractor (line 394, made
\* on the loop itself) or the await of the executor (lines 401, 351)
StartUrl(r, rec0, i) ==
    LET url      == rec0.urls[i]
        platform == detect_platform(url)
        rec      == [rec0 EXCEPT !.i = i, !.url = url, !.platform = platform,
                         !.processed = @ \o <<url>>, !.attempts = <<>>, !.ret = "none",
                         !.file_path = None, !.file_by = 0, !.exited = FALSE, !.left = FALSE]
    IN  IF is_tiktok(platform)
        THEN LET t == download_tiktok_with_fallbacks(url, platform) IN
             \* t[1] is False: lines 323-332 are skipped
             IF TIKTOK_DOWNLOADER_AVAILABLE
             THEN SubmitEngine(r, [rec EXCEPT !.attempts =
                                       <<[strategy |-> "specialized", ok |-> t[1]]>>], files)
             ELSE SubmitEngine(r, rec, files)
        ELSE IF use_piped(platform, YOUTUBE_PIPED_ENABLED)
        THEN /\ req' = [req EXCEPT ![r] = [rec EXCEPT !.pc = "piped"]]
             /\ UNCHANGED <<files, _url_cache>>
        ELSE SubmitEngine(r, rec, files)

\* the URL is of no platform: download_media:381-382 returns,
\* download_list:453-454 sets ok = False and goes on
SkipUrl(r, rec0, i) ==
    LET rec == [rec0 EXCEPT !.i = i, !.url = rec0.urls[i], !.platform = P_unknown,
                    !.attempts = <<>>, !.ret = "none", !.file_path = None, !.file_by = 0,
                    !.exited = FALSE, !.left = FALSE]
    IN  /\ req' = [req EXCEPT ![r] = [rec EXCEPT !.pc = AfterUrl(rec)]]
        /\ UNCHANGED <<files, _url_cache>>

\* a handler that returns at once: no URL, or none it supports
ReturnAtOnce(r, rec) ==
    /\ req' = [req EXCEPT ![r] = [rec EXCEPT !.pc = "done"]]
    /\ UNCHANGED <<files, _url_cache>>

\* an update arrives for the r-th request and the loop is free to run its
\* handler; the requests are numbered as they arrive
Arrives(r) ==
    /\ req[r].pc = "idle"
    /\ \A q \in Req : q < r => req[q].pc # "idle"
    /\ LoopIdle

\* a filter that keeps every URL
supported_urls_all(urls) == 1..Len(urls)

\* supported_urls of download_urls_from_text:426 and
\* download_urls_from_reply:512-516, as the indices into urls
supported_urls(urls) == {k \in 1..Len(urls) : detect_platform(urls[k]) # P_unknown}

\* download_media:370-388; urls is re.findall(url_pattern, url)
download_media(r, urls) ==
    /\ Arrives(r)
    /\ LET rec == [req[r] EXCEPT !.entry = "download_media", !.urls = urls] IN
       IF urls = <<>> THEN ReturnAtOnce(r, rec)
       ELSE IF detect_platform(urls[1]) = P_unknown THEN SkipUrl(r, rec, 1)
       ELSE StartUrl(r, rec, 1)
    /\ UNCHANGED <<now, YOUTUBE_PIPED_ENABLED, sent, probe, last, button, hist>>

\* download_urls_from_text:418-435
download_urls_from_text(r, urls) ==
    /\ Arrives(r)
    /\ LET rec == [req[r] EXCEPT !.entry = "download_urls_from_text", !.urls = urls] IN
       IF supported_urls(urls) = {} THEN ReturnAtOnce(r, rec)
       ELSE StartUrl(r, rec, CHOOSE k \in supported_urls(urls) :
                                 \A j \in supported_urls(urls) : k <= j)
    /\ UNCHANGED <<now, YOUTUBE_PIPED_ENABLED, sent, probe, last, button, hist>>

\* download_urls_from_reply:503-525
download_urls_from_reply(r, urls) ==
    /\ Arrives(r)
    /\ LET rec == [req[r] EXCEPT !.entry = "download_urls_from_reply", !.urls = urls] IN
       IF supported_urls(urls) = {} THEN ReturnAtOnce(r, rec)
       ELSE StartUrl(r, rec, CHOOSE k \in supported_urls(urls) :
                                 \A j \in supported_urls(urls) : k <= j)
    /\ UNCHANGED <<now, YOUTUBE_PIPED_ENABLED, sent, probe, last, button, hist>>

\* download_list:446-456, one pass of the loop up to where the coroutine stops
ListPass(r, rec, i) ==
    IF detect_platform(rec.urls[i]) = P_unknown THEN SkipUrl(r, rec, i)
    ELSE StartUrl(r, rec, i)

\* download_list:437-456, up to where the coroutine first stops
download_list(r, urls) ==
    /\ Arrives(r)
    /\ LET rec == [req[r] EXCEPT !.entry = "download_list", !.urls = urls] IN
       IF urls = <<>> THEN ReturnAtOnce(r, rec)
       ELSE ListPass(r, rec, 1)
    /\ UNCHANGED <<now, YOUTUBE_PIPED_ENABLED, sent, probe, last, button, hist>>

\* download_list:446: the loop takes the next URL
NextUrl(r) ==
    /\ req[r].pc = "next"
    /\ ListPass(r, req[r], req[r].i + 1)
    /\ UNCHANGED <<now, YOUTUBE_PIPED_ENABLED, sent, probe, last, button, hist>>

\* download_direct:394-401: _download_youtube_via_piped returns, to the
\* delivery of its file or to the generic extractor
PipedReturn(r) ==
    /\ req[r].pc = "piped"
    /\ \E answers \in PipedAnswers :
        LET rec == req[r]
            p   == _download_youtube_via_piped(answers, files, now, rec.url, rec.platform, r)
            ok  == ~Falsy(p.path) /\ exists(p.files, rec.platform, p.path)
            rc  == [rec EXCEPT !.attempts = <<[strategy |-> "protocol_api", ok |-> ok]>>]
        IN  IF ok THEN EnterSend(r, [rc EXCEPT !.file_by = r], p.files, p.path)
            ELSE SubmitEngine(r, rc, p.files)
    /\ UNCHANGED <<now, YOUTUBE_PIPED_ENABLED, sent, probe, last, button, hist>>

\* the executor thread runs the engine: download_direct:401,
\* download_tiktok_special:351
EngineRun(r) ==
    /\ req[r].pc = "engine"
    /\ \E run \in EngineRuns :
        /\ files' = (files \ {f \in files : f.dir = req[r].platform
                                  /\ \E e \in run.exts : f.name = TitleOf(req[r].url) \o e})
                    \cup {[dir |-> req[r].platform, name |-> TitleOf(req[r].url) \o e,
                           ctime |-> now, by |-> r] : e \in run.exts}
        /\ req' = [req EXCEPT ![r].pc = "engine_done", ![r].raised = run.raises,
                       ![r].result = run.result]
    /\ UNCHANGED <<_url_cache, now, YOUTUBE_PIPED_ENABLED, sent, probe, last, button, hist>>

VIDEO_EXTS ==
    { S_dot_mp4, <<".","a","v","i">>, <<".","m","o","v">>, <<".","m","k","v">> }

IMAGE_EXTS ==
    { S_dot_jpg, <<".","j","p","e","g">>, <<".","p","n","g">>, <<".","g","i","f">>,
      <<".","w","e","b","p">> }

AUDIO_EXTS ==
    { <<".","m","p","3">>, <<".","m","4","a">>, <<".","f","l","a","c">>, <<".","w","a","v">>,
      <<".","a","a","c">>, <<".","o","g","g">> }

\* a chain that compares the name as it is
reply_channel_case_sensitive(filename) ==
    IF EndsWithAny(filename, VIDEO_EXTS) THEN "reply_video"
    ELSE IF EndsWithAny(filename, IMAGE_EXTS) THEN "reply_photo"
    ELSE IF EndsWithAny(filename, AUDIO_EXTS) THEN "reply_audio"
    ELSE "reply_document"

\* send_files_with_buttons:301-308: the reply method a file of the list
\* goes through
batch_reply_channel(filename) ==
    IF EndsWithAny(lower(filename), { S_dot_mp4, <<".","a","v","i">>, <<".","m","o","v">>,
                                      <<".","m","k","v">> })
    THEN "reply_video"
    ELSE IF EndsWithAny(lower(filename), { S_dot_jpg, <<".","j","p","e","g">>,
                                           <<".","p","n","g">>, <<".","g","i","f">>,
                                           <<".","w","e","b","p">> })
    THEN "reply_photo"
    ELSE IF EndsWithAny(lower(filename), { <<".","m","p","3">>, <<".","m","4","a">>,
                                           <<".","f","l","a","c">>, <<".","w","a","v">>,
                                           <<".","a","a","c">>, <<".","o","g","g">> })
    THEN "reply_audio"
    ELSE "reply_document"

\* send_file_with_buttons:280-287: the reply method the file goes through
reply_channel(filename) ==
    IF EndsWithAny(lower(filename), VIDEO_EXTS) THEN "reply_video"
    ELSE IF EndsWithAny(lower(filename), IMAGE_EXTS) THEN "reply_photo"
    ELSE IF EndsWithAny(lower(filename), AUDIO_EXTS) THEN "reply_audio"
    ELSE "reply_document"

\* download_tiktok_special:353: the names the fallback looks among
tiktok_video_files(fs) ==
    {f \in fs : EndsWithAny(lower(f.name), VIDEO_EXTS \cup {<<".","w","e","b","m">>})}

\* the coroutine resumes with the engine's result:
\* download_direct:402-416, download_tiktok_special:352-365
EngineResume(r) ==
    /\ req[r].pc = "engine_done"
    /\ LoopIdle
    /\ LET rec    == req[r]
           tiktok == is_tiktok(rec.platform)
           found  == IF tiktok THEN tiktok_video_files(listdir(files, rec.platform))
                     ELSE listdir(files, rec.platform)
           failed == [rec EXCEPT !.pc = AfterUrl(rec), !.raised = FALSE, !.result = 1,
                         !.attempts = @ \o <<[strategy |-> "generic", ok |-> FALSE]>>]
       IN  IF rec.raised \/ rec.result # 0
           THEN /\ req' = [req EXCEPT ![r] = [failed EXCEPT !.ret = "False",
                                                   !.outcomes = @ \o <<"False">>]]
                /\ UNCHANGED <<files, _url_cache>>
           ELSE IF found = {}
           THEN LET ret == IF tiktok THEN "False" ELSE "True" IN
                /\ req' = [req EXCEPT ![r] =
                               [failed EXCEPT !.ret = ret, !.outcomes = @ \o <<ret>>]]
                /\ UNCHANGED <<files, _url_cache>>
           ELSE \E f \in Newest(found) :
                    EnterSend(r, [rec EXCEPT !.raised = FALSE, !.result = 1,
                                      !.file_by = f.by, !.attempts =
                                      @ \o <<[strategy |-> "generic", ok |-> TRUE]>>],
                              files, f.name)
    /\ UNCHANGED <<now, YOUTUBE_PIPED_ENABLED, sent, probe, last, button, hist>>

\* send_file_with_buttons:280-292: the reply returns or raises, the finally
\* block runs, and the caller returns True or, from its except, False
SendDone(r) ==
    /\ req[r].pc = "sending"
    /\ LoopIdle
    /\ \E outcome \in {"ok", "send_raises"} :
        /\ files' = send_cleanup(files, req[r].platform, req[r].file_path, outcome)
        /\ sent' = IF outcome = "ok"
                   THEN sent \cup {[to |-> r, channel |-> reply_channel(req[r].file_path),
                                    name |-> req[r].file_path,
                                    callback_data |-> req[r].callback_data]}
                   ELSE sent
        /\ req' = [req EXCEPT ![r].pc = AfterUrl(req[r]), ![r].callback_data = None,
                       ![r].ret = IF outcome = "ok" THEN "True" ELSE "False",
                       ![r].outcomes = @ \o <<IF outcome = "ok" THEN "True" ELSE "False">>,
                       ![r].exited = TRUE,
                       ![r].left = exists(files', req[r].platform, req[r].file_path)]
    /\ UNCHANGED <<_url_cache, now, YOUTUBE_PIPED_ENABLED, probe, last, button, hist>>

Init ==
    /\ _url_cache = EmptyCache
    /\ now = 0
    /\ files = {}
    /\ sent = {}
    /\ YOUTUBE_PIPED_ENABLED \in BOOLEAN
    /\ req = [r \in Req |-> IdleReq]
    /\ AloneIdle

Next ==
    \/ \E r \in Req, url \in MainUrls : download_media(r, <<url>>)
    \/ \E r \in Req : PipedReturn(r)
    \/ \E r \in Req : EngineRun(r)
    \/ \E r \in Req : EngineResume(r)
    \/ \E r \in Req : SendDone(r)
    \/ Tick(MaxUptime)

Spec == Init /\ [][Next]_vars

--------------------------------------------------------------------------
(* The four message handlers, each called with messages of several URLs.   *)

\* the URLs re.findall finds in the messages the users send
EntryMessages ==
    { <<>>,
      <<URL_OTHER>>,
      <<URL_OTHER, URL_FB_LONG>>,
      <<URL_FB_LONG, URL_OTHER, URL_TT>>,
      <<URL_YT_SHORT, URL_FB_LONG>> }

\* the first request is any handler with any of the messages; the second,
\* which may arrive while the first is in progress, is a download of one URL
EntryNext ==
    \/ \E urls \in EntryMessages : download_media(1, urls)
    \/ \E urls \in EntryMessages : download_urls_from_text(1, urls)
    \/ \E urls \in EntryMessages : download_urls_from_reply(1, urls)
    \/ \E urls \in EntryMessages : download_list(1, urls)
    \/ download_media(2, <<URL_FB_LONG>>)
    \/ \E r \in Req : NextUrl(r)
    \/ \E r \in Req : PipedReturn(r)
    \/ \E r \in Req : EngineRun(r)
    \/ \E r \in Req : EngineResume(r)
    \/ \E r \in Req : SendDone(r)

SpecEntry == Init /\ [][EntryNext]_vars

\* the request's record changes in this step
Moves(r) == req'[r] # req[r]

\* C12: no URL classified as unknown is handed to download_direct or
\* download_tiktok_special by any handler; a request whose current URL is
\* unknown has attempted no strategy for it and has no file; and the step
\* that drops the URL writes no file and sends nothing.
C12_UnknownDropped ==
    /\ [](\A r \in Req :
            /\ \A k \in 1..Len(req[r].processed) :
                   detect_platform(req[r].processed[k]) # P_unknown
            /\ req[r].platform = P_unknown =>
                   /\ req[r].pc \in {"next", "done"}
                   /\ req[r].attempts = <<>>
                   /\ req[r].file_path = None)
    /\ [][\A r \in Req :
            (Moves(r) /\ req'[r].platform = P_unknown) =>
                /\ files' = files
                /\ sent' = sent
                /\ req'[r].processed = req[r].processed]_vars

\* download_list has dropped the unknown URL in the middle of its message
C12_Witness ==
    \E r \in Req :
        /\ req[r].entry = "download_list"
        /\ req[r].pc = "next"
        /\ req[r].platform = P_unknown
        /\ req[r].processed = <<URL_FB_LONG>>

\* the URLs of a message that are of a known platform, in order
KnownUrls(urls) == SelectSeq(urls, LAMBDA u : detect_platform(u) # P_unknown)

IsPrefix(a, b) == Len(a) <= Len(b) /\ SubSeq(b, 1, Len(a)) = a

SingleShot == {"download_media", "download_urls_from_text", "download_urls_from_reply"}

\* C17: download_list hands the message's URLs of known platforms to the
\* strategies in their order of appearance, and has handed over all of them
\* when it returns, whatever the outcome of each; the other three handlers
\* hand over at most one URL, the first of a known platform (for
\* download_media, the message's first URL).
C17_ListAllSingleFirst ==
    \A r \in Req :
        LET rec == req[r] IN
        /\ rec.entry = "download_list" =>
               /\ IsPrefix(rec.processed, KnownUrls(rec.urls))
               /\ rec.pc = "done" => rec.processed = KnownUrls(rec.urls)
        /\ rec.entry \in SingleShot =>
               /\ Len(rec.processed) <= 1
               /\ rec.processed # <<>> => rec.processed[1] = KnownUrls(rec.urls)[1]
               /\ (rec.processed # <<>> /\ rec.entry = "download_media")
                      => rec.processed[1] = rec.urls[1]

\* download_list has returned, having gone on to the last URL of its
\* message after the first one failed
C17_Witness ==
    \E r \in Req :
        /\ req[r].entry = "download_list"
        /\ req[r].pc = "done"
        /\ req[r].urls = <<URL_FB_LONG, URL_OTHER, URL_TT>>
        /\ req[r].processed = <<URL_FB_LONG, URL_TT>>
        /\ req[r].outcomes[1] = "False"

\* the strategies a platform's requests go through, in order
Chain(platform, enabled) ==
    IF platform \in {P_tiktok, P_douyin} THEN <<"specialized", "generic">>
    ELSE IF platform = P_youtube /\ enabled THEN <<"protocol_api", "generic">>
    ELSE <<"generic">>

\* C1: the strategies a request of a known platform has attempted are the
\* first ones of its platform's chain, in the chain's order; none follows
\* one that succeeded; and a request that ended without a success went
\* through the whole chain.
C1_StrategyOrder ==
    \A r \in Req :
        (req[r].pc # "idle" /\ req[r].platform # P_unknown) =>
            LET a     == req[r].attempts
                chain == Chain(req[r].platform, YOUTUBE_PIPED_ENABLED)
            IN  /\ Len(a) <= Len(chain)
                /\ \A i \in 1..Len(a) : a[i].strategy = chain[i]
                /\ \A i \in 1..Len(a) : a[i].ok => i = Len(a)
                /\ (req[r].pc = "done" /\ \A i \in 1..Len(a) : ~a[i].ok)
                       => Len(a) = Len(chain)

\* a YouTube request whose protocol-API attempt failed and whose generic
\* attempt then succeeded
C1_Witness ==
    \E r \in Req :
        /\ req[r].pc = "done"
        /\ Len(req[r].attempts) = 2
        /\ req[r].attempts[1] = [strategy |-> "protocol_api", ok |-> FALSE]
        /\ req[r].attempts[2] = [strategy |-> "generic", ok |-> TRUE]

\* C2: a request all of whose strategies failed (the engine raised or
\* returned non-zero, or no file was found; every endpoint failed) has
\* returned False and was sent no file.
C2_AllFailedReturnsFalse ==
    \A r \in Req :
        (/\ req[r].pc = "done"
         /\ req[r].platform # P_unknown
         /\ \A i \in 1..Len(req[r].attempts) : ~req[r].attempts[i].ok)
            => /\ req[r].ret = "False"
               /\ \A m \in sent : m.to # r

\* C3: when send_file_with_buttons is left, however it is left, its file is
\* not on disk.
C3_SingleFileRemoved ==
    \A r \in Req : req[r].exited => ~req[r].left

\* send_file_with_buttons was left by an exception
C3_Witness ==
    \E r \in Req :
        /\ req[r].exited
        /\ req[r].ret = "False"
        /\ req[r].file_path # None

\* the positions at which a blocking acquisition step is in progress: the
\* protocol-API extractor (HTTP calls, stream downloads, remux subprocess)
\* and the extraction engine
Acquiring == {"piped", "engine"}

\* C13: while a blocking acquisition step of some request is in progress,
\* no coroutine occupies the event loop: the front end is free to start the
\* handler of another request.
C13_FrontEndStaysResponsive ==
    \A r \in Req : req[r].pc \in Acquiring => LoopIdle

\* C14: the file a request hands to delivery, and deletes after it, was
\* written by that request's own acquisition attempt.
C14_FileIsRequestLocal ==
    \A r \in Req : req[r].file_path # None => req[r].file_by = r

\* C15: when a request's handler has finished, no file that this request
\* wrote is in the download directories.
C15_NoFileOutlivesRequest ==
    \A r \in Req : req[r].pc = "done" => \A f \in files : f.by # r

\* C19: download_direct and download_tiktok_special return True only when
\* a file was found in the target directory and handed to delivery; an
\* engine that raised or returned non-zero, or left no file to find, makes
\* them return False.
C19_SuccessNeedsFile ==
    \A r \in Req :
        /\ req[r].ret = "True" => req[r].file_path # None
        /\ (req[r].ret # "none" /\ req[r].file_path = None) => req[r].ret = "False"

--------------------------------------------------------------------------
(* The callback queries of the "Convert to Audio" buttons.  The buttons    *)
(* pressed are those of keyboards built at any time, by this run of the    *)
(* program or by an earlier one, whose cache is gone.                      *)

S_dot_mp3 == <<".","m","p","3">>

\* the keyboards whose buttons are pressed, and those built meanwhile
ConvertPairs == { <<P_youtube, URL_YT_SHORT>>, <<P_youtube, URL_YT_LONG_A>>,
                  <<P_facebook, URL_FB_LONG>> }

\* the callback data of these buttons, and one that is no button's
ConvertPayloads ==
    {build_action_keyboard(EmptyCache, 0, pu[2], pu[1]).callback_data : pu \in ConvertPairs}
        \cup {S_convert_audio \o S_bar \o P_youtube}

\* what one run of the engine with audio_only=True does
AudioRuns ==
    { [raises |-> TRUE,  result |-> 1, exts |-> {}],
      [raises |-> FALSE, result |-> 1, exts |-> {}],
      [raises |-> FALSE, result |-> 0, exts |-> {}],
      [raises |-> FALSE, result |-> 0, exts |-> {S_dot_mp3}] }

\* the key a payload of the cached form carries
CachedKey(data) == Split(data, "|", 1)[2]

\* platform or 'youtube', lines 481-486
media_dir(platform) == IF Falsy(platform) \/ platform = <<>> THEN P_youtube ELSE platform

\* a callback query arrives: the application calls handle_convert_to_audio
\* if the handler's pattern matches the data (app.py:60), and no handler
\* otherwise; the handler awaits query.answer() (line 460)
CallbackQuery(r, data) ==
    /\ Arrives(r)
    /\ LET rec == [req[r] EXCEPT !.entry = "handle_convert_to_audio", !.data = data,
                       !.routed = CallbackPatternMatches(data),
                       !.miss = /\ StartsWith(data, S_convert_cached)
                                /\ CachedKey(data) \notin DOMAIN _url_cache]
       IN  req' = [req EXCEPT ![r] = [rec EXCEPT !.pc = IF rec.routed THEN "answering"
                                                        ELSE "done"]]
    /\ UNCHANGED <<_url_cache, now, YOUTUBE_PIPED_ENABLED, files, sent, probe, last, button,
                   hist>>

\* handle_convert_to_audio:461-484: the data is parsed; the keyboard is
\* removed and the handler returns, or the engine is handed to the executor
ConvertParse(r) ==
    /\ req[r].pc = "answering"
    /\ LoopIdle
    /\ LET parsed == parse_callback_data(_url_cache, req[r].data) IN
       IF parsed.cleared
       THEN req' = [req EXCEPT ![r].pc = "done", ![r].cleared = TRUE]
       ELSE req' = [req EXCEPT ![r].pc = "audio_engine", ![r].url = parsed.original_url,
                        ![r].platform = parsed.platform,
                        ![r].attempts = <<[strategy |-> "audio", ok |-> FALSE]>>]
    /\ UNCHANGED <<_url_cache, now, YOUTUBE_PIPED_ENABLED, files, sent, probe, last, button,
                   hist>>

\* the executor thread runs the engine: handle_convert_to_audio:484
AudioEngineRun(r) ==
    /\ req[r].pc = "audio_engine"
    /\ \E run \in AudioRuns :
        /\ files' = (files \ {f \in files : f.dir = media_dir(req[r].platform)
                                  /\ \E e \in run.exts : f.name = TitleOf(req[r].url) \o e})
                    \cup {[dir |-> media_dir(req[r].platform),
                           name |-> TitleOf(req[r].url) \o e,
                           ctime |-> now, by |-> r] : e \in run.exts}
        /\ req' = [req EXCEPT ![r].pc = "audio_done", ![r].raised = run.raises,
                       ![r].result = run.result]
    /\ UNCHANGED <<_url_cache, now, YOUTUBE_PIPED_ENABLED, sent, probe, last, button, hist>>

\* handle_convert_to_audio:485-494, up to the await of reply_audio
ConvertResume(r) ==
    /\ req[r].pc = "audio_done"
    /\ LoopIdle
    /\ LET rec   == [req[r] EXCEPT !.raised = FALSE, !.result = 1]
           found == listdir(files, media_dir(rec.platform))
       IN  IF req[r].raised \/ req[r].result # 0 \/ found = {}
           THEN /\ req' = [req EXCEPT ![r] = [rec EXCEPT !.pc = "done"]]
                /\ UNCHANGED <<files, _url_cache>>
           ELSE \E f \in Newest(found), keyboard \in {"ok", "raises"} :
                    IF keyboard = "raises"
                    THEN /\ files' = RemoveFile(files, f.dir, f.name)
                         /\ req' = [req EXCEPT ![r] = [rec EXCEPT !.pc = "done",
                                        !.file_path = f.name, !.file_by = f.by]]
                         /\ UNCHANGED _url_cache
                    ELSE LET k == build_action_keyboard(_url_cache, now, rec.url,
                                                        rec.platform) IN
                         /\ _url_cache' = k.cache
                         /\ files' = files
                         /\ req' = [req EXCEPT ![r] = [rec EXCEPT !.pc = "audio_sending",
                                        !.file_path = f.name, !.file_by = f.by,
                                        !.callback_data = k.callback_data,
                                        !.attempts = <<[strategy |-> "audio", ok |-> TRUE]>>]]
    /\ UNCHANGED <<now, YOUTUBE_PIPED_ENABLED, sent, probe, last, button, hist>>

\* handle_convert_to_audio:494-501: reply_audio returns or raises, the
\* finally block removes the file
ConvertSendDone(r) ==
    /\ req[r].pc = "audio_sending"
    /\ LoopIdle
    /\ \E outcome \in {"ok", "send_raises"} :
        /\ files' = RemoveFile(files, media_dir(req[r].platform), req[r].file_path)
        /\ sent' = IF outcome = "ok"
                   THEN sent \cup {[to |-> r, channel |-> "reply_audio",
                                    name |-> req[r].file_path,
                                    callback_data |-> req[r].callback_data]}
                   ELSE sent
        /\ req' = [req EXCEPT ![r].pc = "done", ![r].callback_data = None]
    /\ UNCHANGED <<_url_cache, now, YOUTUBE_PIPED_ENABLED, probe, last, button, hist>>

ConvertInit ==
    /\ ProgramIdle
    /\ YOUTUBE_PIPED_ENABLED = TRUE
    /\ req = [r \in Req |-> IdleReq]
    /\ AloneIdle

ConvertNext ==
    \/ \E pu \in ConvertPairs : BuildKeyboard(pu[1], pu[2])
    \/ \E r \in Req, data \in ConvertPayloads : CallbackQuery(r, data)
    \/ \E r \in Req : ConvertParse(r)
    \/ \E r \in Req : AudioEngineRun(r)
    \/ \E r \in Req : ConvertResume(r)
    \/ \E r \in Req : ConvertSendDone(r)

SpecConvert == ConvertInit /\ [][ConvertNext]_vars

\* C16: a callback query of the cached-key form whose key the cache lacks
\* ends with the message's keyboard removed, no engine run, no file taken
\* and nothing sent.
C16_CacheMissClearsKeyboard ==
    \A r \in Req :
        (req[r].pc = "done" /\ req[r].miss) =>
            /\ req[r].cleared
            /\ req[r].attempts = <<>>
            /\ req[r].file_path = None
            /\ \A m \in sent : m.to # r

--------------------------------------------------------------------------
(* send_files_with_buttons applied on its own (downloader.py:294-315) to   *)
(* a list of files of the tiktok directory.  Its only call,                *)
(* download_tiktok_special:331, follows a success of                       *)
(* download_tiktok_with_fallbacks.                                         *)

MaxBatch == 3

BatchNames == { <<"a">> \o S_dot_mp4, <<"b">> \o S_dot_mp4, <<"c">> \o S_dot_jpg }

\* the lists of one to MaxBatch distinct names
BatchLists ==
    {l \in UNION {[1..n -> BatchNames] : n \in 1..MaxBatch} :
        \A i, j \in 1..Len(l) : i # j => l[i] # l[j]}

BatchInit ==
    /\ _url_cache = EmptyCache
    /\ now = 0
    /\ sent = {}
    /\ YOUTUBE_PIPED_ENABLED = TRUE
    /\ req = <<>>
    /\ \E l \in BatchLists :
        /\ probe = [pc |-> "called", file_paths |-> l, i |-> 1, opened |-> {},
                    callback_data |-> None]
        /\ files = {[dir |-> P_tiktok, name |-> l[i], ctime |-> 0, by |-> 1] : i \in 1..Len(l)}
    /\ last = [op |-> "none"]
    /\ button = NoButton
    /\ hist = NoHist

\* line 295, then the first pass of the loop up to its await: the keyboard
\* is built outside the try, so an exception of it leaves the function
BatchEnter ==
    /\ probe.pc = "called"
    /\ \E keyboard \in {"ok", "raises"} :
        IF keyboard = "raises"
        THEN /\ probe' = [probe EXCEPT !.pc = "raised"]
             /\ UNCHANGED _url_cache
        ELSE LET k == build_action_keyboard(_url_cache, now, URL_TT, P_tiktok) IN
             /\ _url_cache' = k.cache
             /\ probe' = [probe EXCEPT !.pc = "sending", !.callback_data = k.callback_data,
                              !.opened = {probe.file_paths[1]}]
    /\ UNCHANGED <<now, YOUTUBE_PIPED_ENABLED, files, req, sent, last, button, hist>>

\* lines 301-315: the reply of the i-th file returns or raises, the inner
\* finally removes the file; an exception leaves the loop for the outer
\* except, and the function returns
BatchSendDone ==
    /\ probe.pc = "sending"
    /\ \E outcome \in {"ok", "send_raises"} :
        LET name == probe.file_paths[probe.i]
            more == outcome = "ok" /\ probe.i < Len(probe.file_paths)
        IN  /\ files' = RemoveFile(files, P_tiktok, name)
            /\ sent' = IF outcome = "ok"
                       THEN sent \cup {[to |-> 1, channel |-> batch_reply_channel(name),
                                        name |-> name, callback_data |-> probe.callback_data]}
                       ELSE sent
            /\ probe' = IF more
                        THEN [probe EXCEPT !.i = @ + 1,
                                  !.opened = @ \cup {probe.file_paths[probe.i + 1]}]
                        ELSE [probe EXCEPT !.pc = "returned"]
    /\ UNCHANGED <<_url_cache, now, YOUTUBE_PIPED_ENABLED, req, last, button, hist>>

BatchNext == BatchEnter \/ BatchSendDone

SpecBatch == BatchInit /\ [][BatchNext]_vars

\* C4: when send_files_with_buttons has returned, every file of the list
\* was attempted and none of them is on disk, whichever sends failed.
C4_BatchIsolatesFailures ==
    probe.pc = "returned" =>
        \A i \in 1..Len(probe.file_paths) :
            /\ probe.file_paths[i] \in probe.opened
            /\ ~exists(files, P_tiktok, probe.file_paths[i])

--------------------------------------------------------------------------
(* The choice of the reply method, applied on its own to file names put    *)
(* together from a stem and an extension in some letter case.              *)

ChannelStems == { <<"a">>, <<"A",".","b">>, <<"c","l","i","p",".","m","p","4">> }

\* the extensions the two functions name, and some they do not: .webm,
\* .pdf, .part, no extension, and mp4 without its dot
ChannelExts ==
    VIDEO_EXTS \cup IMAGE_EXTS \cup AUDIO_EXTS
        \cup { <<".","w","e","b","m">>, <<".","p","d","f">>, <<".","p","a","r","t">>,
               <<>>, <<"m","p","4">> }

ChannelCases == {"lower", "upper", "capital"}

ChannelName(p) ==
    p.stem \o (CASE p.case = "lower" -> p.ext
                 [] p.case = "upper" -> upper(p.ext)
                 [] p.case = "capital" ->
                        IF Len(p.ext) < 2 THEN p.ext
                        ELSE SubSeq(p.ext, 1, 1) \o upper(SubSeq(p.ext, 2, 2))
                                 \o SubSeq(p.ext, 3, Len(p.ext)))

ChannelInit ==
    /\ ProgramIdle
    /\ YOUTUBE_PIPED_ENABLED = TRUE
    /\ req = <<>>
    /\ probe \in [stem : ChannelStems, ext : ChannelExts, case : ChannelCases]
    /\ last = [op |-> "none"]
    /\ button = NoButton
    /\ hist = NoHist

\* the file goes through both deliveries
Deliver ==
    /\ last.op = "none"
    /\ last' = [op |-> "deliver", name |-> ChannelName(probe),
                single |-> reply_channel(ChannelName(probe)),
                multi |-> batch_reply_channel(ChannelName(probe))]
    /\ UNCHANGED <<_url_cache, now, YOUTUBE_PIPED_ENABLED, files, req, sent, probe, button, hist>>

ChannelNext == Deliver

SpecChannel == ChannelInit /\ [][ChannelNext]_vars

\* the position of the last "." of a name, 0 if it has none
LastDot(name) ==
    IF \E i \in 1..Len(name) : name[i] = "."
    THEN CHOOSE i \in 1..Len(name) :
             name[i] = "." /\ \A j \in (i + 1)..Len(name) : name[j] # "."
    ELSE 0

\* the extension of a name in lower case, without its dot
Extension(name) ==
    IF LastDot(name) = 0 THEN <<>> ELSE lower(SubSeq(name, LastDot(name) + 1, Len(name)))

\* the bucket the extension falls into
Bucket(ext) ==
    IF ext \in { <<"m","p","4">>, <<"a","v","i">>, <<"m","o","v">>, <<"m","k","v">> }
    THEN "reply_video"
    ELSE IF ext \in { <<"j","p","g">>, <<"j","p","e","g">>, <<"p","n","g">>, <<"g","i","f">>,
                      <<"w","e","b","p">> }
    THEN "reply_photo"
    ELSE IF ext \in { <<"m","p","3">>, <<"m","4","a">>, <<"f","l","a","c">>, <<"w","a","v">>,
                      <<"a","a","c">>, <<"o","g","g">> }
    THEN "reply_audio"
    ELSE "reply_document"

\* C18: single-file and multi-file delivery send a file through the same
\* reply method, the one of the bucket of its extension compared without
\* regard to letter case: video, image, audio, or document for the rest.
C18_ChannelByExtension ==
    last.op = "deliver" =>
        /\ last.single = Bucket(Extension(last.name))
        /\ last.multi = last.single

\* a file with an upper-case image extension after an inner .mp4 went
\* through both deliveries as a photo
C18_Witness ==
    /\ last.op = "deliver"
    /\ last.name = <<"c","l","i","p",".","m","p","4",".","J","P","E","G">>
    /\ last.single = "reply_photo"
    /\ last.multi = "reply_photo"

--------------------------------------------------------------------------
(* _download_youtube_via_piped applied on its own, in an empty directory,  *)
(* to every combination of answers of the three endpoints.                 *)

PipedUrls == {URL_YT_SHORT, URL_OTHER}

PipedInit ==
    /\ ProgramIdle
    /\ YOUTUBE_PIPED_ENABLED = TRUE
    /\ req = <<>>
    /\ probe \in [answers : [1..Len(PIPED_INSTANCES) -> EndpointAnswers], url : PipedUrls]
    /\ last = [op |-> "none"]
    /\ button = NoButton
    /\ hist = NoHist

PipedCall ==
    /\ last.op = "none"
    /\ LET p == _download_youtube_via_piped(probe.answers, files, now, probe.url, P_youtube, 1)
       IN  /\ files' = p.files
           /\ last' = [op |-> "piped", path |-> p.path, queried |-> p.queried]
    /\ UNCHANGED <<_url_cache, now, YOUTUBE_PIPED_ENABLED, req, sent, probe, button, hist>>

PipedNext == PipedCall

SpecPiped == PipedInit /\ [][PipedNext]_vars

\* C20: when _download_youtube_via_piped has returned, the directory holds
\* nothing but the file whose path it returned, and nothing at all when it
\* returned None.
C20_NoIntermediateLeft ==
    last.op = "piped" => \A f \in files : f.name = last.path

\* the answers that carry usable stream metadata: status 200 and a muxed
\* stream or a video-only + audio pair
UsableMetadata ==
    EndpointAnswers \ {"non200", "raises", "no_streams"}

\* C21: the endpoints are queried in the order of PIPED_INSTANCES, none
\* after one that answered with usable stream metadata; none is queried
\* when the URL holds no video id; and the result is None when no endpoint
\* answered with usable metadata.
C21_StopsAtFirstUsable ==
    last.op = "piped" =>
        LET q == last.queried IN
        /\ \A i \in 1..Len(q) : q[i] = i
        /\ \A i \in 1..Len(q) : probe.answers[q[i]] \in UsableMetadata => i = Len(q)
        /\ Falsy(_extract_youtube_id(probe.url)) => q = <<>>
        /\ (\A k \in 1..Len(PIPED_INSTANCES) : probe.answers[k] \notin UsableMetadata)
               => last.path = None

--------------------------------------------------------------------------
(* The choice of streams among those an endpoint lists, applied on its own *)
(* to lists of video and audio streams.  A stream is the fields the code   *)
(* reads of it (None for a missing one; videoOnly missing is False,        *)
(* bitrate missing is 0) and, as id, its url.                              *)

\* the substring test `sub in s`
Contains(s, sub) == \E i \in 1..Len(s) : HasAt(s, i, sub)

Digits == <<"0","1","2","3","4","5","6","7","8","9">>

IsDigit(c) == \E d \in 1..Len(Digits) : Digits[d] = c

DigitVal(c) == (CHOOSE d \in 1..Len(Digits) : Digits[d] = c) - 1

\* int() of a string of digits
RECURSIVE ToInt(_)
ToInt(ds) ==
    IF ds = <<>> THEN 0
    ELSE 10 * ToInt(SubSeq(ds, 1, Len(ds) - 1)) + DigitVal(ds[Len(ds)])

RECURSIVE DigitRun(_, _)
DigitRun(q, i) == IF i > Len(q) \/ ~IsDigit(q[i]) THEN 0 ELSE 1 + DigitRun(q, i + 1)

\* m = re.search(r"(\d+)", q); int(m.group(1)) if m else 0
first_int(q) ==
    IF \E i \in 1..Len(q) : IsDigit(q[i])
    THEN LET i == CHOOSE k \in 1..Len(q) : IsDigit(q[k]) /\ \A j \in 1..(k - 1) : ~IsDigit(q[j])
         IN  ToInt(SubSeq(q, i, i + DigitRun(q, i) - 1))
    ELSE 0

\* s.get('qualityLabel') or s.get('quality') or ''
quality_text(s) ==
    IF ~Falsy(s.qualityLabel) THEN s.qualityLabel
    ELSE IF ~Falsy(s.quality) THEN s.quality
    ELSE <<>>

\* _select_best_piped_stream:127-130
parse_quality(s) == first_int(quality_text(s))

\* _download_youtube_via_piped:165-168
quality_key(s) == first_int(quality_text(s))

\* list.sort(key=..., reverse=True) followed by [0], keys[i] being the key
\* of list[i]: the sort is stable, so this is the first element of the
\* list whose key is the greatest
SortedFirst(list, keys) ==
    list[CHOOSE i \in 1..Len(list) :
             /\ \A j \in 1..Len(list) : keys[j] <= keys[i]
             /\ \A j \in 1..(i - 1) : keys[j] < keys[i]]

S_mp4 == <<"m","p","4">>
S_webm == <<"w","e","b","m">>
S_video_mp4 == <<"v","i","d","e","o","/">> \o S_mp4
S_video_webm == <<"v","i","d","e","o","/">> \o S_webm

\* what the functions return for None
NoVideo ==
    [id |-> 0, container |-> None, mimeType |-> None, videoOnly |-> FALSE,
     qualityLabel |-> None, quality |-> None]

\* s.get('container') == 'mp4' or (s.get('mimeType') or '').startswith('video/mp4')
is_mp4(s) ==
    \/ s.container = S_mp4
    \/ StartsWith(IF Falsy(s.mimeType) THEN <<>> ELSE s.mimeType, S_video_mp4)

\* _select_best_piped_stream, lines 122-132
_select_best_piped_stream(streams) ==
    LET mp4_streams == SelectSeq(streams, is_mp4) IN
    IF mp4_streams = <<>> THEN NoVideo
    ELSE SortedFirst(mp4_streams, [i \in 1..Len(mp4_streams) |-> parse_quality(mp4_streams[i])])

\* _download_youtube_via_piped:164-175: muxed[0] if muxed
select_muxed(v_streams) ==
    LET muxed == SelectSeq(v_streams, LAMBDA s : ~s.videoOnly) IN
    IF muxed = <<>> THEN NoVideo
    ELSE SortedFirst(muxed, [i \in 1..Len(muxed) |-> quality_key(muxed[i])])

NoAudio == [id |-> 0, mimeType |-> None, bitrate |-> 0]

\* a rank that looks at the bitrate alone
audio_rank_bitrate_only(a) == <<1, a.bitrate>>

\* _download_youtube_via_piped:182-187: (score, int(abr))
audio_rank(a) ==
    LET mime == lower(IF Falsy(a.mimeType) THEN <<>> ELSE a.mimeType)
        score == IF Contains(mime, S_mp4) \/ Contains(mime, <<"m","4","a">>)
                    \/ Contains(mime, <<"a","a","c">>)
                 THEN 2 ELSE 1
    IN  <<score, a.bitrate>>

\* the order of Python on tuples of two integers
TupleLess(x, y) == x[1] < y[1] \/ (x[1] = y[1] /\ x[2] < y[2])

\* a_streams.sort(key=audio_rank, reverse=True) followed by [0]
best_audio(a_streams) ==
    a_streams[CHOOSE i \in 1..Len(a_streams) :
                  /\ \A j \in 1..Len(a_streams) :
                         ~TupleLess(audio_rank(a_streams[i]), audio_rank(a_streams[j]))
                  /\ \A j \in 1..(i - 1) :
                         TupleLess(audio_rank(a_streams[j]), audio_rank(a_streams[i]))]

\* _download_youtube_via_piped:179-192: video_only[0] and a_streams[0] if
\* both lists have an element
select_split(v_streams, a_streams) ==
    LET video_only == SelectSeq(v_streams, LAMBDA s : s.videoOnly) IN
    IF video_only = <<>> \/ a_streams = <<>>
    THEN [found |-> FALSE, v |-> NoVideo, a |-> NoAudio]
    ELSE [found |-> TRUE,
          v |-> SortedFirst(video_only,
                            [i \in 1..Len(video_only) |-> quality_key(video_only[i])]),
          a |-> best_audio(a_streams)]

MaxVideoStreams == 3

MaxAudioStreams == 2

\* the video streams the endpoints list: MP4 with audio at 480p, 1080p and
\* "hd720", WebM with audio at 2160p, MP4 video-only at 1440p, WebM
\* video-only at 720p60
VideoPool ==
    { [id |-> 1, container |-> S_mp4, mimeType |-> S_video_mp4, videoOnly |-> FALSE,
       qualityLabel |-> <<"4","8","0","p">>, quality |-> None],
      [id |-> 2, container |-> S_mp4, mimeType |-> S_video_mp4, videoOnly |-> FALSE,
       qualityLabel |-> <<"1","0","8","0","p">>, quality |-> None],
      [id |-> 3, container |-> None, mimeType |-> S_video_mp4, videoOnly |-> FALSE,
       qualityLabel |-> None, quality |-> <<"h","d","7","2","0">>],
      [id |-> 4, container |-> S_webm, mimeType |-> S_video_webm, videoOnly |-> FALSE,
       qualityLabel |-> <<"2","1","6","0","p">>, quality |-> None],
      [id |-> 5, container |-> S_mp4, mimeType |-> S_video_mp4, videoOnly |-> TRUE,
       qualityLabel |-> <<"1","4","4","0","p">>, quality |-> None],
      [id |-> 6, container |-> S_webm, mimeType |-> S_video_webm, videoOnly |-> TRUE,
       qualityLabel |-> <<"7","2","0","p","6","0">>, quality |-> None] }

\* the audio streams: audio/mp4 at 64, audio/webm at 160, one with no
\* mimeType and no bitrate, AUDIO/AAC at 128
AudioPool ==
    { [id |-> 1, mimeType |-> <<"a","u","d","i","o","/","m","p","4">>, bitrate |-> 64],
      [id |-> 2, mimeType |-> <<"a","u","d","i","o","/","w","e","b","m">>, bitrate |-> 160],
      [id |-> 3, mimeType |-> None, bitrate |-> 0],
      [id |-> 4, mimeType |-> <<"A","U","D","I","O","/","A","A","C">>, bitrate |-> 128] }

ListsOf(pool, n) == UNION {[1..k -> pool] : k \in 0..n}

SelectInit ==
    /\ ProgramIdle
    /\ YOUTUBE_PIPED_ENABLED = TRUE
    /\ req = <<>>
    /\ probe \in [v_streams : ListsOf(VideoPool, MaxVideoStreams),
                  a_streams : ListsOf(AudioPool, MaxAudioStreams)]
    /\ last = [op |-> "none"]
    /\ button = NoButton
    /\ hist = NoHist

\* the three selections are made on the lists
Select ==
    /\ last.op = "none"
    /\ last' = [op |-> "select",
                best  |-> _select_best_piped_stream(probe.v_streams),
                muxed |-> select_muxed(probe.v_streams),
                split |-> select_split(probe.v_streams, probe.a_streams)]
    /\ UNCHANGED <<_url_cache, now, YOUTUBE_PIPED_ENABLED, files, req, sent, probe, button, hist>>

SelectNext == Select

SpecSelect == SelectInit /\ [][SelectNext]_vars

\* the elements of a list
Range(list) == {list[i] : i \in 1..Len(list)}

\* the streams of a list that are MP4 and carry audio
MuxedCandidates(streams) == {x \in Range(streams) : is_mp4(x) /\ ~x.videoOnly}

\* C22: the muxed stream selected, by _select_best_piped_stream and by the
\* extractor itself, is none when the list has no MP4 stream with audio,
\* and otherwise one of these whose parsed quality no other of them
\* exceeds; a video-only or non-MP4 stream is never selected.
C22_MuxedSelection ==
    last.op = "select" =>
        \A sel \in {last.best, last.muxed} :
            LET c == MuxedCandidates(probe.v_streams) IN
            /\ c = {} => sel = NoVideo
            /\ c # {} => /\ sel \in c
                         /\ \A x \in c : first_int(quality_text(x)) <= first_int(quality_text(sel))

\* the audio streams of the pool that are of the MPEG-4/AAC family
Mpeg4Family == {a \in AudioPool : a.id \in {1, 4}}

\* a is below b under the two-level key: the family first, then the bitrate
BelowInKey(a, b) ==
    \/ a \notin Mpeg4Family /\ b \in Mpeg4Family
    \/ (a \in Mpeg4Family <=> b \in Mpeg4Family) /\ a.bitrate < b.bitrate

\* C23: the split selection finds nothing when the lists hold no
\* video-only stream or no audio stream; otherwise its video is a
\* video-only stream whose parsed quality none exceeds and its audio is a
\* stream that none is above under the key (family, then bitrate).
C23_SplitSelection ==
    last.op = "select" =>
        LET vo == {x \in Range(probe.v_streams) : x.videoOnly}
            au == Range(probe.a_streams)
        IN  /\ (vo = {} \/ au = {}) => ~last.split.found
            /\ (vo # {} /\ au # {}) =>
                   /\ last.split.found
                   /\ last.split.v \in vo
                   /\ \A x \in vo : first_int(quality_text(x))
                                        <= first_int(quality_text(last.split.v))
                   /\ last.split.a \in au
                   /\ \A x \in au : ~BelowInKey(last.split.a, x)

\* the AAC stream at 128 was chosen over the WebM stream at 160 listed
\* before it, and the video-only stream at 1440p over the one at 720p
C23_Witness ==
    /\ last.op = "select"
    /\ Len(probe.a_streams) = 2
    /\ probe.a_streams[1].id = 2
    /\ probe.a_streams[2].id = 4
    /\ last.split.found
    /\ last.split.a.id = 4
    /\ {x.id : x \in Range(probe.v_streams)} = {5, 6}
    /\ last.split.v.id = 5

--------------------------------------------------------------------------
(* The cache under concurrent requests, a store taken statement by         *)
(* statement: the list of expired keys is built (lines 232-234), the keys  *)
(* are deleted one by one (235-236), the entry is written (241-242).       *)
(* _store_url_in_cache is reached through build_action_keyboard from the   *)
(* coroutines (277, 295, 492) and _get_url_from_cache from                 *)
(* handle_convert_to_audio (468); the executor threads run the engine only.*)

NoOp ==
    [op |-> "none", url |-> None, platform |-> None, key |-> None, t |-> 0,
     expired |-> {}, swept |-> {}, expect |-> EmptyCache, raised |-> FALSE,
     result |-> <<None, None>>]

SerialInit ==
    /\ _url_cache \in {EmptyCache,
                       _store_url_in_cache(EmptyCache, 0, URL_FB_LONG, P_facebook).cache}
    /\ now = 0
    /\ files = {}
    /\ sent = {}
    /\ YOUTUBE_PIPED_ENABLED = TRUE
    /\ req = [r \in Req |-> IdleReq]
    /\ probe = [r \in Req |-> NoOp]
    /\ last = [op |-> "none"]
    /\ button = NoButton
    /\ hist = NoHist

\* _store_url_in_cache is entered: _cleanup_url_cache:232-234
StoreBegin(r, platform, url) ==
    /\ Arrives(r)
    /\ req' = [req EXCEPT ![r].pc = "sweep"]
    /\ probe' = [probe EXCEPT ![r] =
                    [NoOp EXCEPT !.op = "store", !.url = url, !.platform = platform,
                         !.key = Md5Hex8(platform, url), !.t = now,
                         !.expired = {key \in DOMAIN _url_cache :
                                         now - _url_cache[key][3] > _cache_cleanup_time},
                         !.expect = _store_url_in_cache(_url_cache, now, url, platform).cache]]
    /\ UNCHANGED <<_url_cache, now, YOUTUBE_PIPED_ENABLED, files, sent, last, button, hist>>

\* _cleanup_url_cache:235-236, one pass: del _url_cache[key] raises KeyError
\* when the key is gone
SweepStep(r) ==
    /\ req[r].pc = "sweep"
    /\ \E key \in probe[r].expired :
        IF key \in DOMAIN _url_cache
        THEN /\ _url_cache' = [k \in DOMAIN _url_cache \ {key} |-> _url_cache[k]]
             /\ probe' = [probe EXCEPT ![r].expired = @ \ {key}, ![r].swept = @ \cup {key}]
             /\ UNCHANGED req
        ELSE /\ probe' = [probe EXCEPT ![r].raised = TRUE]
             /\ req' = [req EXCEPT ![r].pc = "done"]
             /\ UNCHANGED _url_cache
    /\ UNCHANGED <<now, YOUTUBE_PIPED_ENABLED, files, sent, last, button, hist>>

\* _store_url_in_cache:240-243
StoreInsert(r) ==
    /\ req[r].pc = "sweep"
    /\ probe[r].expired = {}
    /\ _url_cache' = [k \in DOMAIN _url_cache \cup {probe[r].key} |->
                         IF k = probe[r].key
                         THEN <<probe[r].url, probe[r].platform, probe[r].t>>
                         ELSE _url_cache[k]]
    /\ req' = [req EXCEPT ![r].pc = "done"]
    /\ UNCHANGED <<now, YOUTUBE_PIPED_ENABLED, files, sent, probe, last, button, hist>>

\* _get_url_from_cache:245-254
ResolveOp(r, key) ==
    /\ Arrives(r)
    /\ LET got == _get_url_from_cache(_url_cache, key) IN
       /\ _url_cache' = got.cache
       /\ probe' = [probe EXCEPT ![r] = [NoOp EXCEPT !.op = "resolve", !.key = key,
                                             !.t = now, !.result = got.result]]
    /\ req' = [req EXCEPT ![r].pc = "done"]
    /\ UNCHANGED <<now, YOUTUBE_PIPED_ENABLED, files, sent, last, button, hist>>

SerialNext ==
    \/ \E r \in Req, pu \in StorePairs : StoreBegin(r, pu[1], pu[2])
    \/ \E r \in Req : SweepStep(r)
    \/ \E r \in Req : StoreInsert(r)
    \/ \E r \in Req, key \in ResolveKeys : ResolveOp(r, key)
    \/ Tick(MaxClock)

SpecSerial == SerialInit /\ [][SerialNext]_vars

\* C24: no two requests are inside a store at once; while a request is
\* inside a store no other request starts a store or a resolve; no sweep
\* finds one of its keys gone; and a store leaves the cache as its sweep
\* and insert applied at once to the cache it found.
C24_CacheAccessSerialized ==
    /\ [](\A r \in Req :
            /\ ~probe[r].raised
            /\ req[r].pc = "sweep" => \A q \in Req \ {r} : req[q].pc # "sweep")
    /\ [][\A r \in Req :
            req[r].pc = "sweep" =>
                /\ \A q \in Req \ {r} : req'[q] = req[q] /\ probe'[q] = probe[q]
                /\ req'[r].pc = "done" => _url_cache' = probe[r].expect]_vars

\* both requests are through, the second one a store whose sweep deleted
\* an expired entry
C24_Witness ==
    /\ \A r \in Req : req[r].pc = "done"
    /\ probe[2].op = "store"
    /\ probe[2].swept # {}
    /\ probe[1].op # "none"

==========================================================================
